---- MODULE Spec2Model ----
(***************************************************************************)
(* Bump allocator of src/main.rs: the BumpAllocator state machine          *)
(* (heap_start, heap_end, next), align_up, and the GlobalAlloc entry       *)
(* points alloc / dealloc.  Addresses are usize values of WordBits bits.   *)
(* The `+` of usize panics on overflow when the build has overflow checks  *)
(* (debug profile) and wraps modulo 2^WordBits when it has not (release    *)
(* profile); the build is chosen once, in Init.                            *)
(***************************************************************************)
EXTENDS Integers, Sequences, FiniteSets, TLC

VARIABLES heap_start, heap_end, next, overflow_checks, panicked, allocs, call,
          inflight

vars == <<heap_start, heap_end, next, overflow_checks, panicked, allocs, call,
          inflight>>

(* ---------------------------- bounds ----------------------------------- *)

\* width of usize in bits
WordBits == 13

\* largest heap_size handed to BumpAllocator::new
MaxHeapSize == 4

\* largest "small" request size (the huge size is IsizeMax)
MaxSize == 2

\* number of successful allocations recorded before the run is cut
MaxAllocs == 3

(* ------------------------ usize arithmetic ----------------------------- *)

RECURSIVE Pow2(_)
Pow2(n) == IF n = 0 THEN 1 ELSE 2 * Pow2(n - 1)

WordSize == Pow2(WordBits)

UsizeMax == WordSize - 1

IsizeMax == Pow2(WordBits - 1) - 1

\* the value a usize holds after an operation whose exact result is x
Wrap(x) == x % WordSize

\* does the exact result x of a usize operation leave the type's range
Overflows(x) == x < 0 \/ x > UsizeMax

RECURSIVE BitAnd(_, _)
BitAnd(a, b) ==
    IF a = 0 \/ b = 0 THEN 0
    ELSE (a % 2) * (b % 2) + 2 * BitAnd(a \div 2, b \div 2)

\* `!x` on usize
BitNot(a) == UsizeMax - a

IsPowerOfTwo(a) == \E i \in 0..(WordBits - 1) : a = Pow2(i)

(* ------------------------------ Layout --------------------------------- *)

\* core::alloc::Layout: align is a power of two and size, rounded up to a
\* multiple of align, does not exceed isize::MAX
ValidLayout(size, align) ==
    /\ size >= 0
    /\ IsPowerOfTwo(align)
    /\ ((size + align - 1) \div align) * align <= IsizeMax

HalfWord == Pow2(WordBits - 1)

\* requested alignments: the small ones and the largest a Layout can carry
Aligns == {1, 2, 4, HalfWord}

\* requested sizes: the small ones and the largest a Layout can carry
Sizes == (0..MaxSize) \cup {IsizeMax}

Layouts ==
    { l \in [size : Sizes, align : Aligns] : ValidLayout(l.size, l.align) }

(* ----------------------------- align_up -------------------------------- *)

\* align_up without the mask: the address is handed back as it came
align_up_unmasked(addr, align) == addr

\* align_up with the "- 1" left out: an aligned address is moved on to the
\* next multiple
align_up_no_minus_one(addr, align) ==
    BitAnd(Wrap(addr + align), BitNot(Wrap(align - 1)))

\* (addr + align - 1) & !(align - 1), as the wrapping build computes it
align_up(addr, align) ==
    BitAnd(Wrap(Wrap(addr + align) - 1), BitNot(Wrap(align - 1)))

\* an intermediate result of align_up leaves usize
align_up_overflows(addr, align) ==
    Overflows(addr + align) \/ Overflows(align - 1)

(* --------------------------- BumpAllocator ----------------------------- *)

\* alloc that returns the block and leaves the cursor where it was
alloc_no_bump(self, layout, checks) ==
    LET alloc_start == align_up(self.next, layout.align)
        alloc_end   == Wrap(alloc_start + layout.size)
        overflow    == \/ align_up_overflows(self.next, layout.align)
                       \/ Overflows(alloc_start + layout.size)
    IN  IF checks /\ overflow
        THEN [self |-> self, ret |-> 0, outcome |-> "panic"]
        ELSE IF alloc_end > self.heap_end
        THEN [self |-> self, ret |-> 0, outcome |-> "null"]
        ELSE [self |-> self, ret |-> alloc_start, outcome |-> "ok"]

\* a constructor that takes the size of the store for its end
new_end_is_size(start, size) ==
    [heap_start |-> start, heap_end |-> Wrap(size), next |-> start]

\* BumpAllocator::new
new(start, size) ==
    [heap_start |-> start, heap_end |-> Wrap(start + size), next |-> start]

\* alloc with the cursor advanced before the bound is tested, so that a
\* refused request still moves next
alloc_bump_first(self, layout, checks) ==
    LET alloc_start == align_up(self.next, layout.align)
        alloc_end   == Wrap(alloc_start + layout.size)
        overflow    == \/ align_up_overflows(self.next, layout.align)
                       \/ Overflows(alloc_start + layout.size)
        bumped      == [self EXCEPT !.next = alloc_end]
    IN  IF checks /\ overflow
        THEN [self |-> self, ret |-> 0, outcome |-> "panic"]
        ELSE IF alloc_end > self.heap_end
        THEN [self |-> bumped, ret |-> 0, outcome |-> "null"]
        ELSE [self |-> bumped, ret |-> alloc_start, outcome |-> "ok"]

\* BumpAllocator::alloc.  Result: the allocator after the call, the pointer
\* returned (0 is the null pointer) and which way the call ended:
\*   "ok"    the else branch, next advanced and alloc_start returned
\*   "null"  the if branch, null returned
\*   "panic" an arithmetic overflow was caught by the build's checks
alloc(self, layout, checks) ==
    LET alloc_start == align_up(self.next, layout.align)
        alloc_end   == Wrap(alloc_start + layout.size)
        overflow    == \/ align_up_overflows(self.next, layout.align)
                       \/ Overflows(alloc_start + layout.size)
    IN  IF checks /\ overflow
        THEN [self |-> self, ret |-> 0, outcome |-> "panic"]
        ELSE IF alloc_end > self.heap_end
        THEN [self |-> self, ret |-> 0, outcome |-> "null"]
        ELSE [self |-> [self EXCEPT !.next = alloc_end],
              ret |-> alloc_start, outcome |-> "ok"]

\* dealloc that gives the most recent block back by rewinding the cursor
dealloc_rewind(self, ptr, layout) ==
    IF ptr + layout.size = self.next /\ layout.size > 0
    THEN [self EXCEPT !.next = ptr]
    ELSE self

\* GlobalAlloc::dealloc: the empty body
dealloc(self, ptr, layout) == self

Self == [heap_start |-> heap_start, heap_end |-> heap_end, next |-> next]

(* ------------------------------ inputs --------------------------------- *)

\* backing stores <<heap_start, heap_size>>: just above null and aligned in
\* the lower half of the address space, with every size, and one that ends
\* three bytes below the top of the address space
Heaps ==
    ({1, 8} \X (1..MaxHeapSize))
    \cup {<<WordSize - MaxHeapSize - 3, MaxHeapSize>>}

\* the execution contexts that may call the allocator
Contexts == {1, 2}

\* a context that is not inside alloc
Idle == [pc |-> "idle", size |-> 0, align |-> 1, readAt |-> 0,
         before |-> [heap_start |-> 0, heap_end |-> 0, next |-> 0]]

(* ------------------------------ actions -------------------------------- *)

Init ==
    /\ \E heap \in Heaps :
          /\ ~Overflows(heap[1] + heap[2])
          /\ heap_start = new(heap[1], heap[2]).heap_start
          /\ heap_end = new(heap[1], heap[2]).heap_end
          /\ next = new(heap[1], heap[2]).next
    /\ overflow_checks \in BOOLEAN
    /\ panicked = FALSE
    /\ allocs = <<>>
    /\ call = [op |-> "new", size |-> 0, align |-> 1, ret |-> 0,
               outcome |-> "none", before |-> new(heap_start, heap_end - heap_start)]
    /\ inflight = [c \in Contexts |-> Idle]

\* GlobalAlloc::alloc -> BumpAllocator::alloc.  The calls come one at a time:
\* the &mut obtained from &self is the only access to the allocator while
\* the call runs.  A panic ends the program.
AllocFrom(layouts) ==
    /\ ~panicked
    /\ Len(allocs) < MaxAllocs
    /\ \E layout \in layouts :
          \E r \in {alloc(Self, layout, overflow_checks)} :
              /\ heap_start' = r.self.heap_start
              /\ heap_end' = r.self.heap_end
              /\ next' = r.self.next
              /\ panicked' = (r.outcome = "panic")
              /\ allocs' = IF r.outcome = "ok"
                           THEN Append(allocs, [addr |-> r.ret,
                                                size |-> layout.size,
                                                align |-> layout.align])
                           ELSE allocs
              /\ call' = [op |-> "alloc", size |-> layout.size,
                          align |-> layout.align, ret |-> r.ret,
                          outcome |-> r.outcome, before |-> Self]
    /\ UNCHANGED <<overflow_checks, inflight>>

Alloc == AllocFrom(Layouts)

\* the arguments a caller may pass to dealloc: a block that was returned,
\* with its layout, or a pointer that was never returned
DeallocArgs ==
    { [ptr |-> allocs[i].addr,
       layout |-> [size |-> allocs[i].size, align |-> allocs[i].align]] :
           i \in 1..Len(allocs) }
    \cup { [ptr |-> p, layout |-> [size |-> 1, align |-> 1]] :
               p \in {0, heap_start, next} }

\* GlobalAlloc::dealloc
Dealloc ==
    /\ ~panicked
    /\ \E args \in DeallocArgs :
          \E s \in {dealloc(Self, args.ptr, args.layout)} :
              /\ heap_start' = s.heap_start
              /\ heap_end' = s.heap_end
              /\ next' = s.next
    /\ call' = [op |-> "dealloc", size |-> 0, align |-> 1, ret |-> 0,
                outcome |-> "none", before |-> Self]
    /\ UNCHANGED <<overflow_checks, panicked, allocs, inflight>>

Next == Alloc \/ Dealloc

Spec == Init /\ [][Next]_vars

(* --------------------- the 16-byte store at 0x1000 ---------------------- *)

\* <<heap_start, heap_size>> of the store
ExampleHeap == <<4096, 16>>

\* the requests made of it
ExampleLayouts ==
    { [size |-> 3, align |-> 4], [size |-> 5, align |-> 4],
      [size |-> 10, align |-> 1], [size |-> 1, align |-> 1],
      [size |-> 0, align |-> 1] }

InitExample ==
    /\ ~Overflows(ExampleHeap[1] + ExampleHeap[2])
    /\ heap_start = new(ExampleHeap[1], ExampleHeap[2]).heap_start
    /\ heap_end = new(ExampleHeap[1], ExampleHeap[2]).heap_end
    /\ next = new(ExampleHeap[1], ExampleHeap[2]).next
    /\ overflow_checks \in BOOLEAN
    /\ panicked = FALSE
    /\ allocs = <<>>
    /\ call = [op |-> "new", size |-> 0, align |-> 1, ret |-> 0,
               outcome |-> "none",
               before |-> new(ExampleHeap[1], ExampleHeap[2])]
    /\ inflight = [c \in Contexts |-> Idle]

ExampleAlloc == AllocFrom(ExampleLayouts)

NextExample == ExampleAlloc \/ Dealloc

SpecExample == InitExample /\ [][NextExample]_vars

(* ------------------------- align_up on its own -------------------------- *)

\* every alignment a Layout can carry
AllAligns == { Pow2(i) : i \in 0..(WordBits - 1) }

\* the cursor stands at any address of the address space
InitAlignUp ==
    /\ \E addr \in 0..UsizeMax :
          /\ heap_start = new(addr, 0).heap_start
          /\ heap_end = new(addr, 0).heap_end
          /\ next = new(addr, 0).next
    /\ overflow_checks \in BOOLEAN
    /\ panicked = FALSE
    /\ allocs = <<>>
    /\ call = [op |-> "new", size |-> 0, align |-> 1, ret |-> 0,
               outcome |-> "none", before |-> new(heap_start, 0)]
    /\ inflight = [c \in Contexts |-> Idle]

\* align_up(self.next, layout.align), the first statement of alloc, applied
\* once to the address drawn
AlignUpStep ==
    /\ ~panicked
    /\ call.op = "new"
    /\ \E align \in AllAligns :
          \E panic \in {overflow_checks /\ align_up_overflows(next, align)} :
              /\ panicked' = panic
              /\ call' = [op |-> "align_up", size |-> 0, align |-> align,
                          ret |-> IF panic THEN 0 ELSE align_up(next, align),
                          outcome |-> IF panic THEN "panic" ELSE "ok",
                          before |-> Self]
    /\ UNCHANGED <<heap_start, heap_end, next, overflow_checks, allocs,
                   inflight>>

SpecAlignUp == InitAlignUp /\ [][AlignUpStep]_vars

(* ------------------- alloc without mutual exclusion -------------------- *)

\* the requests the contexts make
RaceLayouts == { l \in Layouts : l.size <= 1 /\ l.align <= 2 }

\* the calls that have read next and not yet returned
Reading == { c \in Contexts : inflight[c].pc = "write" }

\* Context c enters alloc through &self and evaluates
\* align_up(self.next, layout.align()) and alloc_start + layout.size(): it
\* reads next, and an overflow caught by the build's checks ends the program.
AllocRead(c) ==
    /\ ~panicked
    /\ inflight[c].pc = "idle"
    /\ Len(allocs) + Cardinality(Reading) < MaxAllocs
    /\ \E layout \in RaceLayouts :
          \E r \in {alloc(Self, layout, overflow_checks)} :
              IF r.outcome = "panic"
              THEN /\ panicked' = TRUE
                   /\ call' = [op |-> "alloc", size |-> layout.size,
                               align |-> layout.align, ret |-> r.ret,
                               outcome |-> r.outcome, before |-> Self]
                   /\ UNCHANGED inflight
              ELSE /\ inflight' = [inflight EXCEPT ![c] =
                                      [pc |-> "write", size |-> layout.size,
                                       align |-> layout.align,
                                       readAt |-> Len(allocs),
                                       before |-> Self]]
                   /\ UNCHANGED <<panicked, call>>
    /\ UNCHANGED <<heap_start, heap_end, next, overflow_checks, allocs>>

\* Context c finishes alloc with the alloc_start and alloc_end it computed
\* from the next it read: the if branch returns null and writes nothing, the
\* else branch writes self.next = alloc_end and returns alloc_start.
AllocWrite(c) ==
    /\ ~panicked
    /\ inflight[c].pc = "write"
    /\ \E r \in {alloc(inflight[c].before,
                       [size |-> inflight[c].size, align |-> inflight[c].align],
                       overflow_checks)} :
          /\ next' = IF r.outcome = "ok" THEN r.self.next ELSE next
          /\ allocs' = IF r.outcome = "ok"
                       THEN Append(allocs, [addr |-> r.ret,
                                            size |-> inflight[c].size,
                                            align |-> inflight[c].align,
                                            seen |-> inflight[c].before.next,
                                            readAt |-> inflight[c].readAt])
                       ELSE allocs
          /\ call' = [op |-> "alloc", size |-> inflight[c].size,
                      align |-> inflight[c].align, ret |-> r.ret,
                      outcome |-> r.outcome, before |-> inflight[c].before]
    /\ inflight' = [inflight EXCEPT ![c] = Idle]
    /\ UNCHANGED <<heap_start, heap_end, overflow_checks, panicked>>

RaceRead == \E c \in Contexts : AllocRead(c)

RaceWrite == \E c \in Contexts : AllocWrite(c)

NextRace == RaceRead \/ RaceWrite

SpecRace == Init /\ [][NextRace]_vars

(* ------------------------------ claims --------------------------------- *)

\* the recorded allocations that handed a non-null pointer to the consumer
Returned == { i \in 1..Len(allocs) : allocs[i].addr # 0 }

\* the request of the last call
Request == [size |-> call.size, align |-> call.align]

\* C1: any two returned blocks with different base addresses occupy
\* disjoint intervals [a1, a1+s1) and [a2, a2+s2).
C1_NoOverlap ==
    \A i \in Returned, j \in Returned :
        allocs[i].addr # allocs[j].addr =>
            \/ allocs[i].addr + allocs[i].size <= allocs[j].addr
            \/ allocs[j].addr + allocs[j].size <= allocs[i].addr

\* C2: every returned block [a, a+size) lies inside [heap_start, heap_end).
C2_BoundedAllocation ==
    \A i \in Returned :
        /\ heap_start <= allocs[i].addr
        /\ allocs[i].addr + allocs[i].size <= heap_end

\* C3: heap_start <= next <= heap_end in every reachable state.
C3_CursorBounds == heap_start <= next /\ next <= heap_end

\* C4: every address returned by a successful allocate is an exact multiple
\* of the alignment that was requested for it.
C4_Aligned ==
    \A i \in Returned : allocs[i].addr % allocs[i].align = 0

\* C4 witness: a block was returned at a cursor that was not itself a
\* multiple of the requested alignment, so align_up had to round.
C4_Witness ==
    /\ call.op = "alloc" /\ call.outcome = "ok" /\ call.ret # 0
    /\ call.size > 0
    /\ call.align = 4 /\ call.before.next % 4 # 0
    /\ call.ret > call.before.next

C6_DeallocNoOp ==
    call.op = "dealloc" =>
        /\ next = call.before.next
        /\ heap_start = call.before.heap_start
        /\ heap_end = call.before.heap_end
        /\ \A l \in Layouts :
              alloc(Self, l, overflow_checks) = alloc(call.before, l, overflow_checks)

\* C6 witness: deallocate was called after blocks had been handed out.
C6_Witness ==
    /\ call.op = "dealloc"
    /\ \E i \in Returned : allocs[i].size > 0
    /\ next > heap_start /\ next <= heap_end

\* C7: each returned base address is >= base + size of every block that
\* was returned before it.
C7_MonotoneAddresses ==
    \A i \in Returned, j \in Returned :
        i < j => allocs[j].addr >= allocs[i].addr + allocs[i].size

\* C8: no step produces a state whose next is smaller than before the step.
C8_CursorMonotone == [][next' >= next]_vars

\* smallest multiple of align that is >= addr, over the integers
RoundUp(addr, align) == ((addr + align - 1) \div align) * align

\* C9: allocate agrees with the reference operator: with alloc_start the
\* smallest multiple of align >= next and alloc_end = alloc_start + size, the
\* call does not succeed if and only if alloc_end > heap_end, then leaving
\* next alone; otherwise it returns alloc_start and sets next to alloc_end.
C9_MatchesReference ==
    call.op = "alloc" =>
        LET ref_start == RoundUp(call.before.next, call.align)
            ref_end   == ref_start + call.size
        IN  IF ref_end > heap_end
            THEN call.outcome # "ok" /\ next = call.before.next
            ELSE call.outcome = "ok" /\ call.ret = ref_start /\ next = ref_end

\* C10: every returned address a satisfies heap_start <= a < heap_end, for
\* requests of every size, the size 0 included.
C10_AddressInHeap ==
    \A i \in Returned :
        heap_start <= allocs[i].addr /\ allocs[i].addr < heap_end

\* a request that does not succeed in the state of the allocator
Refused(self, l, checks) == alloc(self, l, checks).outcome # "ok"

\* C11: exhaustion is permanent: a request that is refused in a state is
\* refused in every state that a further allocate or deallocate call leads to.
C11_ExhaustionPermanent ==
    [][ \A l \in Layouts :
            Refused(Self, l, overflow_checks) => Refused(Self', l, overflow_checks')
      ]_vars

\* C12: no two successful allocate calls return the same base address,
\* whatever the sizes requested, the size 0 included.
C12_UniqueAddress ==
    \A i \in Returned, j \in Returned :
        i # j => allocs[i].addr # allocs[j].addr

C14_ZeroSize ==
    (/\ call.op = "alloc" /\ call.size = 0
     /\ RoundUp(call.before.next, call.align) <= heap_end) =>
        /\ call.outcome = "ok"
        /\ call.ret = RoundUp(call.before.next, call.align)
        /\ next = call.ret

\* the last call was allocate(size, align), made with the cursor at cursor
Called(size, align, cursor) ==
    /\ call.op = "alloc" /\ call.size = size /\ call.align = align
    /\ call.before.next = cursor

\* C15: on the store of 16 bytes at 0x1000, allocate(3, 4) at the fresh
\* cursor returns 0x1000 and leaves next = 0x1003; allocate(5, 4) from there
\* returns 0x1004 and leaves next = 0x1009; allocate(10, 1) from there fails
\* and leaves next = 0x1009.
C15_ExampleTrace ==
    /\ Called(3, 4, 4096) =>
          call.outcome = "ok" /\ call.ret = 4096 /\ next = 4099
    /\ Called(5, 4, 4099) =>
          call.outcome = "ok" /\ call.ret = 4100 /\ next = 4105
    /\ Called(10, 1, 4105) =>
          call.outcome = "null" /\ call.ret = 0 /\ next = 4105

\* C15 witness: the three calls were made in this order and the third was
\* refused.
C15_Witness ==
    /\ heap_start = 4096 /\ heap_end = 4112
    /\ allocs = << [addr |-> 4096, size |-> 3, align |-> 4],
                   [addr |-> 4100, size |-> 5, align |-> 4] >>
    /\ Called(10, 1, 4105) /\ call.outcome = "null"

Overlap(i, j) ==
    /\ allocs[i].addr < allocs[j].addr + allocs[j].size
    /\ allocs[j].addr < allocs[i].addr + allocs[i].size

\* no request made of this store can wrap
NoWrapPossible ==
    \A l \in RaceLayouts : ~Overflows(heap_end + l.align + l.size)

\* every successful call so far read next after the one before it wrote it
Serialized == \A k \in 1..Len(allocs) : allocs[k].readAt = k - 1

\* C17: two contexts run alloc with the read of next and the write of next
\* as separate steps.  On a store where no sum can wrap, as long as every
\* successful call read next after the previous one wrote it, no two returned
\* blocks of positive size overlap; the overlap of C17_Witness needs the
\* interleaving.
C17_OverlapNeedsInterleaving ==
    (NoWrapPossible /\ Serialized) =>
        \A i \in Returned, j \in Returned :
            (i < j /\ allocs[i].size > 0 /\ allocs[j].size > 0) =>
                ~Overlap(i, j)

\* C17 witness: both contexts read the same next before either wrote it, both
\* calls succeeded with a positive size, and their blocks overlap.
C17_Witness ==
    /\ NoWrapPossible
    /\ \E i \in Returned, j \in Returned :
          /\ i < j /\ allocs[i].size > 0 /\ allocs[j].size > 0
          /\ allocs[j].readAt < i
          /\ allocs[j].seen = allocs[i].seen
          /\ Overlap(i, j)

\* C18: in the build whose additions wrap, a request whose exact
\* align_up(next, align) + size exceeds heap_end is reported as a failure, no
\* block recorded as returned extends outside [heap_start, heap_end), and
\* next is never below heap_start.
C18_WrapNeverSucceeds ==
    ~overflow_checks =>
        /\ (/\ call.op = "alloc"
            /\ RoundUp(call.before.next, call.align) + call.size > heap_end)
               => call.outcome = "null"
        /\ \A i \in 1..Len(allocs) :
               /\ heap_start <= allocs[i].addr
               /\ allocs[i].addr + allocs[i].size <= heap_end
        /\ next >= heap_start

\* the sizes of the blocks allocs[1..n] added up
RECURSIVE SumSizes(_)
SumSizes(n) == IF n = 0 THEN 0 ELSE allocs[n].size + SumSizes(n - 1)

\* the cursor that the call returning allocs[k] found
CursorBefore(k) ==
    IF k = 1 THEN heap_start ELSE allocs[k - 1].addr + allocs[k - 1].size

\* C19: next is heap_start while no alloc has succeeded and afterwards the
\* end of the most recent block; the padding before each block is at least
\* 0 and less than its alignment; the sizes of all blocks add up to at most
\* next - heap_start, which is at most the size of the store; and at most
\* that many blocks have a size of 1 or more.
C19_SpaceAccounting ==
    /\ next = CursorBefore(Len(allocs) + 1)
    /\ \A k \in 1..Len(allocs) :
           /\ allocs[k].addr - CursorBefore(k) >= 0
           /\ allocs[k].addr - CursorBefore(k) < allocs[k].align
    /\ SumSizes(Len(allocs)) <= next - heap_start
    /\ next - heap_start <= heap_end - heap_start
    /\ Cardinality({ k \in 1..Len(allocs) : allocs[k].size >= 1 })
           <= heap_end - heap_start

====
